---------------------------- MODULE Spec2Model ----------------------------
(***************************************************************************)
(* Car business analytics dashboard: the record store (database.py), the   *)
(* upsert writers and the cached loads of the dashboard (app.py) and the   *)
(* spreadsheet importer (import_excel.py).                                 *)
(*                                                                         *)
(* Amounts (currency, odometer readings) are counted in halves, so that    *)
(* Rs(1) = 2 is one rupee and 1 is half a rupee: whole amounts are even.   *)
(* A nullable column, and a spreadsheet cell that may be empty (NaN), is a *)
(* set with at most one element: {} is None / NaN, {v} is the value v.     *)
(***************************************************************************)
EXTENDS Integers, Sequences, FiniteSets, TLC

VARIABLES
    daily_records,    \* table daily_records: the committed rows
    other_expenses,   \* table other_expenses: the committed rows
    sess,             \* per dashboard session: the upsert call in progress
    imp,              \* the import script: the invocation in progress
    cache,            \* st.cache_data: the memoized load_data / load_other_expenses
    report,           \* what the latest script run rendered
    calls,            \* number of write calls started (upserts, import runs)
    lastOk,           \* per table and date: the arguments of the latest successful upsert
    written           \* per table: the values of every write committed so far

vars == <<daily_records, other_expenses, sess, imp, cache, report, calls, lastOk,
          written>>

-----------------------------------------------------------------------------
(* Bounds of the model *)

MaxCalls == 2   \* write calls started: upserts and the import run
MaxBatch == 2   \* sheet rows one import function reads

\* The calendar days written to, as days of the year 2025: 2 January and 29 December.
Dates == {2, 363}
Sessions == {"s1", "s2"}
Tables == {"daily", "other"}

-----------------------------------------------------------------------------
(* Values *)

Rs(n) == 2 * n
HalfRs == Rs(1) \div 2

None == {}
Some(v) == {v}
Get(o) == CHOOSE v \in o : TRUE

\* Python's int(x) on a float: truncation toward zero (here: to a whole amount).
PyInt(h) == IF h >= 0 THEN 2 * (h \div 2) ELSE -(2 * ((-h) \div 2))

-----------------------------------------------------------------------------
(* Inputs *)

DailyArg(r, e, c, p, i, os, oe) ==
    [ride_count |-> r, earnings |-> e, cng_expenses |-> c, driver_pass |-> p,
     indrive |-> i, odo_start |-> os, odo_end |-> oe]

\* What the daily form can submit (all fields >= 0; counts and the first two
\* amounts whole, the rest decimal).
DailyArgs ==
    { DailyArg(0, 0, Rs(1), 0, 0, Rs(1), 0),
      DailyArg(2, Rs(3), Rs(1), HalfRs, 0, Rs(1), Rs(2)) }

OtherArg(emi, rent, misc, m) ==
    [car_emi |-> emi, pg_rent |-> rent, expenses |-> misc, months |-> m]

\* What the other-expenses form can submit.
OtherArgs ==
    { OtherArg(Rs(5), Rs(3), 0, "Jan"),
      OtherArg(0, 0, HalfRs, "") }

-----------------------------------------------------------------------------
(* The tables (database.py) and the statements a session issues on them *)

Ids(table) == {r.id : r \in table}

\* id = Column(Integer, primary_key=True, autoincrement=True)
NextId(table) ==
    IF table = {} THEN 1 ELSE 1 + (CHOOSE i \in Ids(table) : \A j \in Ids(table) : j <= i)

RowsFor(table, date) == {r \in table : r.date = date}

\* session.query(Model).filter_by(date=date).first(): None, or a row of that date.
First(table, date) ==
    IF RowsFor(table, date) = {} THEN None
    ELSE Some(CHOOSE r \in RowsFor(table, date) : \A q \in RowsFor(table, date) : r.id <= q.id)

\* date = Column(Date, nullable=False, unique=True): an INSERT of a date the table
\* holds already raises IntegrityError.
UniqueViolation(table, vals) == RowsFor(table, vals.date) # {}

\* The INSERT the flush issues for an object given to session.add.
ApplyInsert(table, vals) ==
    table \cup {[f \in DOMAIN vals \cup {"id"} |->
                    IF f = "id" THEN NextId(table) ELSE vals[f]]}

\* An UPDATE without its WHERE clause: every row takes the assigned values, the
\* date apart.
ApplyUpdateEveryRow(table, loaded, vals) ==
    { [f \in DOMAIN r |-> IF f \notin {"id", "date"} THEN vals[f] ELSE r[f]] : r \in table }

\* An UPDATE that leaves the columns daily_net and months as they were.
ApplyUpdatePartial(table, loaded, vals) ==
    { IF r.id = loaded.id
        THEN [f \in DOMAIN r |->
                IF f \notin {"id", "daily_net", "months"} THEN vals[f] ELSE r[f]]
        ELSE r : r \in table }

\* The UPDATE the flush issues for a loaded object whose attributes were assigned:
\* UPDATE ... SET <the attributes whose value differs from the loaded one>
\* WHERE id = <the loaded object's id>.
ApplyUpdate(table, loaded, vals) ==
    { IF r.id = loaded.id
        THEN [f \in DOMAIN r |->
                IF f # "id" /\ vals[f] # loaded[f] THEN vals[f] ELSE r[f]]
        ELSE r : r \in table }

\* What was flushed stays, whether or not the call went through.
CommitAlways(table, flushed, ok) == flushed

\* session.commit() keeps what the flush wrote; on an exception session.rollback()
\* discards it.
CommitOrRollback(table, flushed, ok) == IF ok THEN flushed ELSE table

\* @property total_other_expenses
total_other_expenses(r) == r.expenses + r.car_emi + r.pg_rent

-----------------------------------------------------------------------------
(* The upsert writers and the entry forms (app.py) *)

Idle == [pc |-> "idle"]

Quiet == (\A s \in Sessions : sess[s].pc = "idle") /\ imp.pc \in {"idle", "exited"}

Store == [daily |-> daily_records, other |-> other_expenses]

\* Values that keep the odometer readings as supplied, zero included.
add_record_values_zero_kept(date, a) ==
    [date |-> date,
     ride_count |-> a.ride_count,
     earnings |-> a.earnings,
     cng_expenses |-> a.cng_expenses,
     driver_pass_subscription |-> a.driver_pass,
     indrive_topup |-> a.indrive,
     odometer_start |-> Some(a.odo_start),
     odometer_end |-> Some(a.odo_end),
     daily_net |-> PyInt(a.earnings - a.cng_expenses - a.driver_pass - a.indrive)]

\* The values add_record assigns, to the existing row or to the new one.
add_record_values(date, a) ==
    [date |-> date,
     ride_count |-> a.ride_count,
     earnings |-> a.earnings,
     cng_expenses |-> a.cng_expenses,
     driver_pass_subscription |-> a.driver_pass,
     indrive_topup |-> a.indrive,
     odometer_start |-> IF a.odo_start > 0 THEN Some(a.odo_start) ELSE None,
     odometer_end |-> IF a.odo_end > 0 THEN Some(a.odo_end) ELSE None,
     daily_net |-> PyInt(a.earnings - a.cng_expenses - a.driver_pass - a.indrive)]

\* The values add_other_expense assigns.
add_other_expense_values(date, a) ==
    [date |-> date,
     car_emi |-> a.car_emi,
     pg_rent |-> a.pg_rent,
     expenses |-> a.expenses,
     months |-> Some(a.months)]

\* What the flush of an upsert writes: the UPDATE of the row found, or the INSERT.
UpsertWrite(table, existing, vals) ==
    IF existing # None THEN ApplyUpdate(table, Get(existing), vals)
    ELSE ApplyInsert(table, vals)

\* Whether the flush of an upsert goes through.
UpsertAccepted(table, existing, vals) ==
    existing # None \/ ~UniqueViolation(table, vals)

\* add_record up to its query; fault: the query raises (the connection is lost),
\* the except branch rolls back, shows the error and add_record returns False
\* (pc "failed").
add_record_query(s) ==
    /\ sess[s].pc = "idle"
    /\ calls < MaxCalls
    /\ \E date \in Dates, a \in DailyArgs, fault \in BOOLEAN :
          sess' = [sess EXCEPT ![s] =
                     [pc |-> IF fault THEN "failed" ELSE "queried",
                      error |-> IF fault THEN Some("OperationalError") ELSE None,
                      fn |-> "add_record", date |-> date, args |-> a,
                      vals |-> add_record_values(date, a),
                      existing |-> IF fault THEN None ELSE First(daily_records, date),
                      pre |-> Store]]
    /\ calls' = calls + 1
    /\ UNCHANGED <<daily_records, other_expenses, imp, cache, report, lastOk, written>>

\* add_record from the assignments to its return; fault: commit raises.
add_record_commit(s) ==
    /\ sess[s].pc = "queried"
    /\ sess[s].fn = "add_record"
    /\ \E fault \in BOOLEAN :
          LET c == sess[s]
              ok == ~fault /\ UpsertAccepted(daily_records, c.existing, c.vals)
          IN  /\ daily_records' =
                    CommitOrRollback(daily_records,
                                     UpsertWrite(daily_records, c.existing, c.vals), ok)
              /\ sess' = [sess EXCEPT ![s].pc = IF ok THEN "saved" ELSE "failed",
                                       ![s].error = IF ok THEN None
                                                    ELSE IF fault THEN Some("OperationalError")
                                                    ELSE Some("IntegrityError")]
              /\ lastOk' = IF ok THEN [lastOk EXCEPT !.daily[c.date] = Some(c.args)]
                           ELSE lastOk
              /\ written' = IF ok THEN [written EXCEPT !.daily = @ \cup {c.vals}]
                            ELSE written
    /\ UNCHANGED <<other_expenses, imp, cache, report, calls>>

\* add_other_expense up to its query.
add_other_expense_query(s) ==
    /\ sess[s].pc = "idle"
    /\ calls < MaxCalls
    /\ \E date \in Dates, a \in OtherArgs, fault \in BOOLEAN :
          sess' = [sess EXCEPT ![s] =
                     [pc |-> IF fault THEN "failed" ELSE "queried",
                      error |-> IF fault THEN Some("OperationalError") ELSE None,
                      fn |-> "add_other_expense", date |-> date, args |-> a,
                      vals |-> add_other_expense_values(date, a),
                      existing |-> IF fault THEN None ELSE First(other_expenses, date),
                      pre |-> Store]]
    /\ calls' = calls + 1
    /\ UNCHANGED <<daily_records, other_expenses, imp, cache, report, lastOk, written>>

\* add_other_expense from the assignments to its return.
add_other_expense_commit(s) ==
    /\ sess[s].pc = "queried"
    /\ sess[s].fn = "add_other_expense"
    /\ \E fault \in BOOLEAN :
          LET c == sess[s]
              ok == ~fault /\ UpsertAccepted(other_expenses, c.existing, c.vals)
          IN  /\ other_expenses' =
                    CommitOrRollback(other_expenses,
                                     UpsertWrite(other_expenses, c.existing, c.vals), ok)
              /\ sess' = [sess EXCEPT ![s].pc = IF ok THEN "saved" ELSE "failed",
                                       ![s].error = IF ok THEN None
                                                    ELSE IF fault THEN Some("OperationalError")
                                                    ELSE Some("IntegrityError")]
              /\ lastOk' = IF ok THEN [lastOk EXCEPT !.other[c.date] = Some(c.args)]
                           ELSE lastOk
              /\ written' = IF ok THEN [written EXCEPT !.other = @ \cup {c.vals}]
                            ELSE written
    /\ UNCHANGED <<daily_records, imp, cache, report, calls>>

\* during: whether the memoized frames were read while a write call was in progress.
NoCache == [daily |-> None, other |-> None, during |-> FALSE]

\* The form handlers after the writer returned: on True, st.cache_data.clear() and
\* st.rerun(); on False nothing.
form_submitted(s) ==
    /\ sess[s].pc \in {"saved", "failed"}
    /\ cache' = IF sess[s].pc = "saved" THEN NoCache ELSE cache
    /\ sess' = [sess EXCEPT ![s] = Idle]
    /\ UNCHANGED <<daily_records, other_expenses, imp, report, calls, lastOk, written>>

-----------------------------------------------------------------------------
(* The importer (import_excel.py) *)

DateKinds == {"str", "datetime", "date", "other"}

\* The date cells a sheet of one kind can hold: a string may be malformed.
RawDates(kind) ==
    {[type |-> kind, day |-> d, valid |-> v] :
        d \in Dates, v \in IF kind = "str" THEN BOOLEAN ELSE {TRUE}}

\* normalize_date: the date, or None where it raises ValueError.
normalize_date(raw) ==
    CASE raw.type = "str" -> IF raw.valid THEN Some(raw.day) ELSE None
      [] raw.type = "datetime" -> Some(raw.day)
      [] raw.type = "date" -> Some(raw.day)
      [] OTHER -> None

DailyCells(r, e, c, p, i, os, oe, net) ==
    [ride_count |-> r, earnings |-> e, cng_expenses |-> c,
     driver_pass_subscription |-> p, indrive_topup |-> i,
     odometer_start |-> os, odometer_end |-> oe, daily_net |-> net]

\* Rows of a "Daily Record" sheet: an empty cell is None (NaN).
DailySheetRows ==
    { DailyCells(Some(2), Some(Rs(3)), Some(Rs(1)), Some(HalfRs), None, Some(Rs(1)), Some(0),
                 Some(Rs(7))),
      DailyCells(Some(0), None, Some(Rs(1)), None, Some(0), None, Some(Rs(2)), None) }

OtherCells(misc, m, emi, rent) ==
    [expenses |-> misc, months |-> m, car_emi |-> emi, pg_rent |-> rent]

\* Rows of an "Other Expenses" sheet.
OtherSheetRows ==
    { OtherCells(None, None, None, None),
      OtherCells(Some(HalfRs), Some("Jan"), Some(Rs(5)), None),
      OtherCells(None, None, None, Some(Rs(3))) }

\* Series.fillna(0) on one cell.
FillNa0(cell) == IF cell = None THEN 0 ELSE Get(cell)

\* df['daily_net'] = earnings - cng_expenses - pass.fillna(0) - indrive.fillna(0):
\* NaN where earnings or cng_expenses is NaN.
DailyNetColumn(cells) ==
    IF cells.earnings = None \/ cells.cng_expenses = None THEN None
    ELSE Some(Get(cells.earnings) - Get(cells.cng_expenses)
              - FillNa0(cells.driver_pass_subscription) - FillNa0(cells.indrive_topup))

\* value if value else None
Truthy(v) == IF v # 0 THEN Some(v) ELSE None

\* The values import_daily_records assigns for a sheet row, to the existing row or
\* to the new one: the sheet's Daily Net is overwritten by the computed column, then
\* df.fillna(0), then the conversions.
import_daily_values(date, cells) ==
    [date |-> date,
     ride_count |-> FillNa0(cells.ride_count),
     earnings |-> PyInt(FillNa0(cells.earnings)),
     cng_expenses |-> PyInt(FillNa0(cells.cng_expenses)),
     driver_pass_subscription |-> FillNa0(cells.driver_pass_subscription),
     indrive_topup |-> FillNa0(cells.indrive_topup),
     odometer_start |-> Truthy(FillNa0(cells.odometer_start)),
     odometer_end |-> Truthy(FillNa0(cells.odometer_end)),
     daily_net |-> PyInt(FillNa0(DailyNetColumn(cells)))]

\* The rows import_other_expenses keeps: expenses, car_emi or pg_rent non-zero.
KeptOther(cells) ==
    FillNa0(cells.expenses) # 0 \/ FillNa0(cells.car_emi) # 0 \/ FillNa0(cells.pg_rent) # 0

\* The values import_other_expenses assigns for a sheet row.
import_other_values(date, cells) ==
    [date |-> date,
     expenses |-> FillNa0(cells.expenses),
     months |-> cells.months,
     car_emi |-> FillNa0(cells.car_emi),
     pg_rent |-> FillNa0(cells.pg_rent)]

\* The session's unit of work: the loaded objects with assigned attributes, and the
\* objects given to session.add, with the two counters.
EmptyWork == [dirty |-> {}, new |-> <<>>, added |-> 0, updated |-> 0]

\* A loop body whose query finds no row: every sheet row is given to session.add.
StageRowAlwaysAdds(table, u, vals) ==
    [u EXCEPT !.new = Append(@, vals), !.added = @ + 1]

\* One pass of the loop body after normalize_date: the query under no_autoflush
\* reads the table (objects added and not flushed are not in it; a row loaded
\* before is the same object), then the update or the add.
StageRow(table, u, vals) ==
    LET existing == First(table, vals.date)
    IN  IF existing # None
        THEN LET e == Get(existing)
                 prior == {x \in u.dirty : x.loaded.id = e.id}
                 loaded == IF prior = {} THEN e ELSE (CHOOSE x \in prior : TRUE).loaded
             IN  [u EXCEPT !.dirty = (@ \ prior) \cup {[loaded |-> loaded, vals |-> vals]},
                           !.updated = @ + 1]
        ELSE [u EXCEPT !.new = Append(@, vals), !.added = @ + 1]

RECURSIVE FlushUpdates(_, _)
FlushUpdates(table, dirty) ==
    IF dirty = {} THEN table
    ELSE LET x == CHOOSE y \in dirty : TRUE
         IN  FlushUpdates(ApplyUpdate(table, x.loaded, x.vals), dirty \ {x})

RECURSIVE FlushInserts(_, _)
FlushInserts(table, new) ==
    IF new = <<>> THEN [ok |-> TRUE, table |-> table]
    ELSE IF UniqueViolation(table, Head(new)) THEN [ok |-> FALSE, table |-> table]
    ELSE FlushInserts(ApplyInsert(table, Head(new)), Tail(new))

\* The flush of session.commit(): the UPDATEs, then the INSERTs.
Flush(table, u) == FlushInserts(FlushUpdates(table, u.dirty), u.new)

\* The values a unit of work holds for its flush.
StagedValues(u) == {x.vals : x \in u.dirty} \cup {u.new[i] : i \in 1..Len(u.new)}

TouchedDates(u) == {v.date : v \in StagedValues(u)}

Forget(last, dates) == [d \in Dates |-> IF d \in dates THEN None ELSE last[d]]

\* import_excel_to_db up to the loop of import_daily_records: the sheets are read,
\* concatenated and sorted by date (the date cells of the workbook are of one kind).
import_excel_to_db ==
    /\ imp.pc = "idle"
    /\ calls < MaxCalls
    /\ \E kind \in DateKinds :
          imp' = [pc |-> "daily", phase |-> "daily", kind |-> kind, lastDay |-> 0, n |-> 0,
                  work |-> EmptyWork, pre |-> Store, before |-> Store,
                  d_counts |-> None, e_counts |-> None]
    /\ calls' = calls + 1
    /\ UNCHANGED <<daily_records, other_expenses, sess, cache, report, lastOk, written>>

\* except: session.rollback(); raise -- the unit of work is discarded, the counters
\* are not returned.
Raised == [imp EXCEPT !.pc = "raised", !.work.dirty = {}, !.work.new = <<>>]

\* pd.concat(all_df) raises when every sheet was empty.
import_no_rows ==
    /\ imp.pc \in {"daily", "other"}
    /\ imp.n = 0
    /\ imp.work = EmptyWork
    /\ imp' = Raised
    /\ UNCHANGED <<daily_records, other_expenses, sess, cache, report, calls, lastOk, written>>

\* One iteration of the loop of import_daily_records; where normalize_date raises,
\* the except branch rolls back and re-raises.
import_daily_row ==
    /\ imp.pc = "daily"
    /\ imp.n < MaxBatch
    /\ \E raw \in RawDates(imp.kind), cells \in DailySheetRows :
          /\ raw.day >= imp.lastDay
          /\ LET record_date == normalize_date(raw)
             IN  /\ imp' = IF record_date = None THEN [Raised EXCEPT !.n = @ + 1]
                           ELSE [imp EXCEPT
                                   !.lastDay = raw.day, !.n = @ + 1,
                                   !.work = StageRow(daily_records, @,
                                              import_daily_values(Get(record_date), cells))]
                 /\ daily_records' =
                       IF record_date = None
                       THEN CommitOrRollback(daily_records, Flush(daily_records, imp.work).table,
                                             FALSE)
                       ELSE daily_records
    /\ UNCHANGED <<other_expenses, sess, cache, report, calls, lastOk, written>>

\* session.commit() of import_daily_records and its return, then the sheets of
\* import_other_expenses; fault: commit raises.
import_daily_commit ==
    /\ imp.pc = "daily"
    /\ imp.n > 0
    /\ \E fault \in BOOLEAN :
          LET f == Flush(daily_records, imp.work)
              ok == ~fault /\ f.ok
          IN  /\ daily_records' = CommitOrRollback(daily_records, f.table, ok)
              /\ imp' = IF ok
                          THEN [imp EXCEPT !.pc = "other", !.phase = "other", !.lastDay = 0,
                                           !.n = 0, !.work = EmptyWork,
                                           !.d_counts = Some(<<imp.work.added, imp.work.updated>>),
                                           !.before = [daily |-> f.table,
                                                       other |-> other_expenses]]
                          ELSE Raised
              /\ lastOk' = IF ok
                             THEN [lastOk EXCEPT !.daily = Forget(@, TouchedDates(imp.work))]
                             ELSE lastOk
              /\ written' = IF ok
                              THEN [written EXCEPT !.daily = @ \cup StagedValues(imp.work)]
                              ELSE written
    /\ UNCHANGED <<other_expenses, sess, cache, report, calls>>

\* One iteration of the loop of import_other_expenses (a row with nothing to record
\* was dropped from the sheet).
import_other_row ==
    /\ imp.pc = "other"
    /\ imp.n < MaxBatch
    /\ \E raw \in RawDates(imp.kind), cells \in OtherSheetRows :
          /\ raw.day >= imp.lastDay
          /\ LET record_date == normalize_date(raw)
                 raises == KeptOther(cells) /\ record_date = None
             IN  /\ imp' = IF ~KeptOther(cells)
                             THEN [imp EXCEPT !.lastDay = raw.day, !.n = @ + 1]
                           ELSE IF raises THEN [Raised EXCEPT !.n = @ + 1]
                           ELSE [imp EXCEPT
                                   !.lastDay = raw.day, !.n = @ + 1,
                                   !.work = StageRow(other_expenses, @,
                                              import_other_values(Get(record_date), cells))]
                 /\ other_expenses' =
                       IF raises
                       THEN CommitOrRollback(other_expenses, Flush(other_expenses, imp.work).table,
                                             FALSE)
                       ELSE other_expenses
    /\ UNCHANGED <<daily_records, sess, cache, report, calls, lastOk, written>>

\* session.commit() of import_other_expenses, its return and the end of
\* import_excel_to_db.
import_other_commit ==
    /\ imp.pc = "other"
    /\ imp.n > 0
    /\ \E fault \in BOOLEAN :
          LET f == Flush(other_expenses, imp.work)
              ok == ~fault /\ f.ok
          IN  /\ other_expenses' = CommitOrRollback(other_expenses, f.table, ok)
              /\ imp' = IF ok
                          THEN [imp EXCEPT !.pc = "complete", !.work = EmptyWork,
                                           !.e_counts = Some(<<imp.work.added, imp.work.updated>>)]
                          ELSE Raised
              /\ lastOk' = IF ok
                             THEN [lastOk EXCEPT !.other = Forget(@, TouchedDates(imp.work))]
                             ELSE lastOk
              /\ written' = IF ok
                              THEN [written EXCEPT !.other = @ \cup StagedValues(imp.work)]
                              ELSE written
    /\ UNCHANGED <<daily_records, sess, cache, report, calls>>

\* The script ends, after "IMPORT COMPLETE" or with the exception ("One-time script
\* to import data": it is not run again).
import_exit ==
    /\ imp.pc \in {"raised", "complete"}
    /\ imp' = [pc |-> "exited"]
    /\ UNCHANGED <<daily_records, other_expenses, sess, cache, report, calls, lastOk, written>>

-----------------------------------------------------------------------------
(* An import function called as a whole, and called again on the same sheets *)

\* The sheets as one import function reads them: the rows concatenated and sorted
\* by date, the date cells of one kind.
Batches(SheetRows) ==
    UNION { { b \in [1..n -> [raw : RawDates(kind), cells : SheetRows]] :
                \A i \in 1..(n - 1) : b[i].raw.day <= b[i + 1].raw.day }
            : n \in 1..MaxBatch, kind \in DateKinds }

\* The loop of an import function from row i on: normalize_date, the lookup, the
\* update or the add; raised where normalize_date raises.
RECURSIVE StageFrom(_, _, _, _, _)
StageFrom(table, u, batch, i, fn) ==
    IF i > Len(batch) THEN [raised |-> FALSE, work |-> u]
    ELSE IF fn = "import_other_expenses" /\ ~KeptOther(batch[i].cells)
    THEN StageFrom(table, u, batch, i + 1, fn)
    ELSE LET record_date == normalize_date(batch[i].raw)
         IN  IF record_date = None THEN [raised |-> TRUE, work |-> u]
             ELSE StageFrom(table,
                            StageRow(table, u,
                                     IF fn = "import_daily_records"
                                     THEN import_daily_values(Get(record_date), batch[i].cells)
                                     ELSE import_other_values(Get(record_date), batch[i].cells)),
                            batch, i + 1, fn)

\* One call of an import function on a batch: the loop, the commit, and the counts
\* it returns unless it raised; fault: commit raises.
ImportCall(table, batch, fn, fault) ==
    LET staged == StageFrom(table, EmptyWork, batch, 1, fn)
        f == Flush(table, staged.work)
        ok == ~staged.raised /\ ~fault /\ f.ok
    IN  [raised |-> ~ok,
         table |-> CommitOrRollback(table, f.table, ok),
         counts |-> IF ok THEN Some(<<staged.work.added, staged.work.updated>>) ELSE None,
         work |-> staged.work,
         fault |-> fault]

\* What the import run remembers of a call: its outcome and the tables after it.
Outcome(call, store) ==
    [raised |-> call.raised, counts |-> call.counts, fault |-> call.fault, store |-> store]

\* import_daily_records(excel_path), called on a workbook, or called once more on
\* the same workbook with no write in between.
import_daily_records ==
    /\ \/ Quiet /\ imp.pc = "idle" /\ calls < MaxCalls
       \/ imp.pc = "ran" /\ imp.fn = "import_daily_records" /\ imp.second = None
    /\ \E batch \in (IF imp.pc = "idle" THEN Batches(DailySheetRows) ELSE {imp.batch}),
          fault \in BOOLEAN :
          LET call == ImportCall(daily_records, batch, "import_daily_records", fault)
              store == [daily |-> call.table, other |-> other_expenses]
          IN  /\ daily_records' = call.table
              /\ imp' = IF imp.pc = "idle"
                         THEN [pc |-> "ran", fn |-> "import_daily_records", batch |-> batch,
                               first |-> Outcome(call, store), second |-> None]
                         ELSE [imp EXCEPT !.second = Some(Outcome(call, store))]
              /\ lastOk' = IF call.raised THEN lastOk
                            ELSE [lastOk EXCEPT !.daily = Forget(@, TouchedDates(call.work))]
              /\ written' = IF call.raised THEN written
                             ELSE [written EXCEPT !.daily = @ \cup StagedValues(call.work)]
    /\ calls' = IF imp.pc = "idle" THEN calls + 1 ELSE calls
    /\ UNCHANGED <<other_expenses, sess, cache, report>>

\* import_other_expenses(excel_path), called on a workbook, or called once more on
\* the same workbook with no write in between.
import_other_expenses ==
    /\ \/ Quiet /\ imp.pc = "idle" /\ calls < MaxCalls
       \/ imp.pc = "ran" /\ imp.fn = "import_other_expenses" /\ imp.second = None
    /\ \E batch \in (IF imp.pc = "idle" THEN Batches(OtherSheetRows) ELSE {imp.batch}),
          fault \in BOOLEAN :
          LET call == ImportCall(other_expenses, batch, "import_other_expenses", fault)
              store == [daily |-> daily_records, other |-> call.table]
          IN  /\ other_expenses' = call.table
              /\ imp' = IF imp.pc = "idle"
                         THEN [pc |-> "ran", fn |-> "import_other_expenses", batch |-> batch,
                               first |-> Outcome(call, store), second |-> None]
                         ELSE [imp EXCEPT !.second = Some(Outcome(call, store))]
              /\ lastOk' = IF call.raised THEN lastOk
                            ELSE [lastOk EXCEPT !.other = Forget(@, TouchedDates(call.work))]
              /\ written' = IF call.raised THEN written
                             ELSE [written EXCEPT !.other = @ \cup StagedValues(call.work)]
    /\ calls' = IF imp.pc = "idle" THEN calls + 1 ELSE calls
    /\ UNCHANGED <<daily_records, sess, cache, report>>

-----------------------------------------------------------------------------
(* The cached loads (app.py) *)

\* The rows of a table in the order of ORDER BY date.
RECURSIVE OrderByDate(_)
OrderByDate(table) ==
    IF table = {} THEN <<>>
    ELSE LET r == CHOOSE x \in table :
                    \A y \in table : x.date < y.date \/ (x.date = y.date /\ x.id <= y.id)
         IN  <<r>> \o OrderByDate(table \ {r})

\* r.driver_pass_subscription or 0
OrZero(x) == IF x = 0 THEN 0 ELSE x

\* The frame load_data builds from the table.
DailyFrame(table) ==
    LET rows == OrderByDate(table)
    IN  [i \in 1..Len(rows) |->
            [date |-> rows[i].date,
             ride_count |-> rows[i].ride_count,
             earnings |-> rows[i].earnings,
             cng_expenses |-> rows[i].cng_expenses,
             driver_pass_subscription |-> OrZero(rows[i].driver_pass_subscription),
             indrive_topup |-> OrZero(rows[i].indrive_topup),
             odometer_start |-> rows[i].odometer_start,
             odometer_end |-> rows[i].odometer_end,
             daily_net |-> rows[i].daily_net]]

\* The frame load_other_expenses builds from the table.
OtherFrame(table) ==
    LET rows == OrderByDate(table)
    IN  [i \in 1..Len(rows) |->
            [date |-> rows[i].date,
             expenses |-> rows[i].expenses,
             months |-> rows[i].months,
             car_emi |-> rows[i].car_emi,
             pg_rent |-> rows[i].pg_rent,
             total |-> total_other_expenses(rows[i])]]

\* A read that also sees what the write calls in progress have not committed.
DailyReadUncommitted ==
    LET staged == IF imp.pc = "daily" THEN Flush(daily_records, imp.work).table
                  ELSE daily_records
        open == {s \in Sessions : sess[s].pc = "queried" /\ sess[s].fn = "add_record"}
    IN  IF open = {} THEN staged
        ELSE LET s == CHOOSE x \in open : TRUE
             IN  UpsertWrite(staged, sess[s].existing, sess[s].vals)

\* What a query of load_data reads: the committed rows.
DailyRead == daily_records

\* What a query of load_other_expenses reads: the committed rows.
OtherRead == other_expenses

\* @st.cache_data(ttl=60) load_data(): the memoized frame while there is one, else
\* the frame read from the table (which is then memoized).
load_data == IF cache.daily # None THEN Get(cache.daily) ELSE DailyFrame(DailyRead)

\* @st.cache_data(ttl=60) load_other_expenses()
load_other_expenses ==
    IF cache.other # None THEN Get(cache.other) ELSE OtherFrame(OtherRead)

\* The cache after the two loads.
Memoized ==
    [daily |-> Some(load_data), other |-> Some(load_other_expenses),
     during |-> IF cache.daily = None \/ cache.other = None THEN ~Quiet ELSE cache.during]

\* A script run up to its loads: df = load_data(), then
\* other_expenses_df = load_other_expenses().
script_loads ==
    /\ cache' = Memoized
    /\ UNCHANGED <<daily_records, other_expenses, sess, imp, report, calls, lastOk, written>>

\* ttl=60: the frames memoized by a script run expire.
cache_expire ==
    /\ cache # NoCache
    /\ cache' = NoCache
    /\ UNCHANGED <<daily_records, other_expenses, sess, imp, report, calls, lastOk, written>>

-----------------------------------------------------------------------------
(* The summary metrics and the profit margin (app.py) *)

\* A float: a quotient n/d, or what a division by zero gives in a frame.
Num(n, d) == [tag |-> "num", n |-> n, d |-> d]
Zero == Num(0, 1)
IsZero(x) == x.tag = "num" /\ x.n = 0

\* Series / Series: x/0 is inf or -inf, 0/0 is NaN, no error.
SeriesDiv(a, b) ==
    IF b # 0 THEN Num(a, b)
    ELSE IF a = 0 THEN [tag |-> "nan", n |-> 0, d |-> 0]
    ELSE IF a > 0 THEN [tag |-> "inf", n |-> 0, d |-> 0]
    ELSE [tag |-> "-inf", n |-> 0, d |-> 0]

\* Series.fillna(0) on a float: NaN becomes 0, inf stays.
FillNaFloat(x) == IF x.tag = "nan" THEN Zero ELSE x

\* x * 100
Times100(x) == IF x.tag = "num" THEN Num(100 * x.n, x.d) ELSE x

RECURSIVE SumColumn(_, _)
SumColumn(frame, column) ==
    IF frame = <<>> THEN 0 ELSE Head(frame)[column] + SumColumn(Tail(frame), column)

\* A range filter that leaves the end date out.
filtered_df_open_end(df, date_range) ==
    IF Len(date_range) = 2
    THEN SelectSeq(df, LAMBDA r : r.date >= date_range[1] /\ r.date < date_range[2])
    ELSE df

\* df[(df["date"] >= start_date) & (df["date"] <= end_date)], or df when the
\* date input holds one date only.
filtered_df(df, date_range) ==
    IF Len(date_range) = 2
    THEN SelectSeq(df, LAMBDA r : r.date >= date_range[1] /\ r.date <= date_range[2])
    ELSE df

\* total_earnings / total_rides if total_rides > 0 else 0
avg_per_ride(frame) ==
    IF SumColumn(frame, "ride_count") > 0
    THEN Num(SumColumn(frame, "earnings"), SumColumn(frame, "ride_count"))
    ELSE Zero

\* (profit_df["daily_net"] / profit_df["earnings"] * 100).fillna(0)
profit_margin(frame) ==
    [i \in 1..Len(frame) |->
        FillNaFloat(Times100(SeriesDiv(frame[i].daily_net, frame[i].earnings)))]

\* Whether Series.mean() is a finite number.
MeanIsFinite(series) == \A i \in 1..Len(series) : series[i].tag = "num"

\* The year of the dates: a date is the number of its day in this year.
Year == 2025

\* The days of the year before each month begins.
DaysBefore == <<0, 31, 59, 90, 120, 151, 181, 212, 243, 273, 304, 334>>

\* pd.to_datetime(date).dt.to_period("M")
Period(date) ==
    [year |-> Year,
     month |-> CHOOSE m \in 1..12 :
                  DaysBefore[m] < date /\ (m = 12 \/ date <= DaysBefore[m + 1])]

\* The day of the week, Monday = 1 (the first of January is a Wednesday).
Weekday(date) == ((date + 1) % 7) + 1

\* pd.to_datetime(date).dt.isocalendar(): the ISO year and the ISO week (the
\* year has 52 ISO weeks, and its first days belong to its own week 1).
IsoCalendar(date) ==
    LET w == (date - Weekday(date) + 10) \div 7
    IN  IF w > 52 THEN [year |-> Year + 1, week |-> 1] ELSE [year |-> Year, week |-> w]

\* df[months == filter_month]
filtered_by_month(df, filter_month) ==
    SelectSeq(df, LAMBDA r : Period(r.date) = filter_month)

\* The "Monthly Summary" section: groupby('month') over the selection, then the
\* left merge with the monthly sums of other_expenses_df where that frame has rows.
monthly_summary(frame, other_df) ==
    { LET rows == filtered_by_month(frame, m)
          others == filtered_by_month(other_df, m)
          total_expenses == SumColumn(rows, "cng_expenses")
                            + SumColumn(rows, "driver_pass_subscription")
                            + SumColumn(rows, "indrive_topup")
          total_all_expenses == total_expenses + SumColumn(others, "car_emi")
                                + SumColumn(others, "pg_rent")
                                + SumColumn(others, "expenses")
      IN  [month |-> m,
           earnings |-> SumColumn(rows, "earnings"),
           daily_net |-> SumColumn(rows, "daily_net"),
           ride_count |-> SumColumn(rows, "ride_count"),
           date |-> Len(rows),
           total_expenses |-> total_expenses,
           total_all_expenses |-> IF other_df # <<>> THEN Some(total_all_expenses) ELSE None,
           net_profit |-> IF other_df # <<>>
                          THEN SumColumn(rows, "earnings") - total_all_expenses
                          ELSE SumColumn(rows, "daily_net")]
      : m \in {Period(frame[i].date) : i \in 1..Len(frame)} }

\* The key of the weekly aggregation: dt.year and dt.isocalendar().week.
WeekKey(date) == [year |-> Year, week |-> IsoCalendar(date).week]

\* weekly_df.groupby(["year", "week"]).agg(sum)
weekly_agg(frame) ==
    { LET rows == SelectSeq(frame, LAMBDA r : WeekKey(r.date) = k)
      IN  [year |-> k.year, week |-> k.week,
           earnings |-> SumColumn(rows, "earnings"),
           daily_net |-> SumColumn(rows, "daily_net"),
           ride_count |-> SumColumn(rows, "ride_count")]
      : k \in {WeekKey(frame[i].date) : i \in 1..Len(frame)} }

\* The date ranges the date input offers: within the dates of df.
DateRanges(df) ==
    {<<a, b>> : a \in {df[i].date : i \in 1..Len(df)},
                b \in {df[i].date : i \in 1..Len(df)}}
    \cup {<<a>> : a \in {df[i].date : i \in 1..Len(df)}}

\* What the sidebar can select: a date range, or one of the months of df.
Filters(df) ==
    {[filter_type |-> "Date Range", date_range |-> dr, selected_month |-> None] :
        dr \in {x \in DateRanges(df) : Len(x) = 2 => x[1] <= x[2]}}
    \cup {[filter_type |-> "Monthly", date_range |-> <<>>, selected_month |-> Some(m)] :
            m \in {Period(df[i].date) : i \in 1..Len(df)}}

\* filtered_df under either analysis type.
Selected(df, filter) ==
    IF filter.filter_type = "Date Range" THEN filtered_df(df, filter.date_range)
    ELSE filtered_by_month(df, Get(filter.selected_month))

\* A whole script run: the loads, then nothing but a warning when df is empty, else
\* the filter, the summary metrics, the monthly summary, the weekly aggregation and
\* the profit margin series.
render ==
    /\ load_data # <<>>
    /\ cache' = Memoized
    /\ \E filter \in Filters(load_data) :
          LET f == Selected(load_data, filter)
          IN  report' = Some([filter_type |-> filter.filter_type,
                              date_range |-> filter.date_range,
                              selected_month |-> filter.selected_month,
                              other_expenses_df |-> load_other_expenses,
                              filtered_df |-> f,
                              total_earnings |-> SumColumn(f, "earnings"),
                              total_expenses |-> SumColumn(f, "cng_expenses")
                                                 + SumColumn(f, "driver_pass_subscription")
                                                 + SumColumn(f, "indrive_topup"),
                              total_profit |-> SumColumn(f, "daily_net"),
                              total_rides |-> SumColumn(f, "ride_count"),
                              avg_per_ride |-> avg_per_ride(f),
                              monthly_summary |-> monthly_summary(f, load_other_expenses),
                              weekly_agg |-> weekly_agg(f),
                              profit_margin |-> profit_margin(f),
                              mean_is_finite |-> MeanIsFinite(profit_margin(f))])
    /\ UNCHANGED <<daily_records, other_expenses, sess, imp, calls, lastOk, written>>

-----------------------------------------------------------------------------
(* The specifications *)

Init ==
    /\ daily_records = {}
    /\ other_expenses = {}
    /\ sess = [s \in Sessions |-> Idle]
    /\ imp = Idle
    /\ cache = NoCache
    /\ report = None
    /\ calls = 0
    /\ lastOk = [t \in Tables |-> [d \in Dates |-> None]]
    /\ written = [t \in Tables |-> {}]

\* An upsert call in progress takes its next step.
StepForm ==
    \/ \E s \in Sessions : add_record_commit(s)
    \/ \E s \in Sessions : add_other_expense_commit(s)
    \/ \E s \in Sessions : form_submitted(s)

\* The import run in progress takes its next step.
StepImport ==
    \/ import_no_rows
    \/ import_daily_row
    \/ import_daily_commit
    \/ import_other_row
    \/ import_other_commit
    \/ import_exit

\* A form is submitted.
StartForm ==
    \/ \E s \in Sessions : add_record_query(s)
    \/ \E s \in Sessions : add_other_expense_query(s)

\* A script run loads the frames, or the memoized frames expire.
Load ==
    \/ script_loads
    \/ cache_expire

\* The write calls alone, each running to completion before the next begins.
Next == (Quiet /\ (StartForm \/ import_excel_to_db)) \/ StepForm \/ StepImport

Spec == Init /\ [][Next]_vars

\* Every load or write call runs to completion before the next begins.
NextCache ==
    (Quiet /\ (StartForm \/ import_excel_to_db \/ Load)) \/ StepForm \/ StepImport

SpecCache == Init /\ [][NextCache]_vars

\* One writer at a time, and script runs that load while it is at work; what
\* they memoized has expired when the next write call begins.
NextRead ==
    \/ Quiet /\ cache = NoCache /\ (StartForm \/ import_excel_to_db)
    \/ ~Quiet /\ script_loads
    \/ cache_expire
    \/ StepForm
    \/ StepImport

SpecRead == Init /\ [][NextRead]_vars

\* The upsert calls of the dashboard's sessions interleave.
NextConc == StartForm \/ StepForm

SpecConc == Init /\ [][NextConc]_vars

\* The dashboard alone: forms, loads and the rendering, one call at a time.
NextReport == (Quiet /\ (StartForm \/ Load \/ render)) \/ StepForm

SpecReport == Init /\ [][NextReport]_vars

\* Form upserts, then one import function called twice on the same workbook.
NextRerun ==
    \/ Quiet /\ StartForm
    \/ StepForm
    \/ import_daily_records
    \/ import_other_expenses

SpecRerun == Init /\ [][NextRerun]_vars

-----------------------------------------------------------------------------
(* The claims *)

WithoutId(r) == [f \in DOMAIN r \ {"id"} |-> r[f]]

AtMostOneRowPerDate(table) == \A d \in Dates : Cardinality(RowsFor(table, d)) <= 1

\* C1: after successful upserts a table holds exactly one row for each date
\* written, and the row of a date holds, in every field, the values of the latest
\* successful upsert for that date (add_record and add_other_expense).
C1_UpsertLastWriteWins ==
    /\ AtMostOneRowPerDate(daily_records)
    /\ AtMostOneRowPerDate(other_expenses)
    /\ \A d \in Dates :
          /\ lastOk.daily[d] # None =>
                {WithoutId(r) : r \in RowsFor(daily_records, d)}
                    = {add_record_values(d, Get(lastOk.daily[d]))}
          /\ lastOk.other[d] # None =>
                {WithoutId(r) : r \in RowsFor(other_expenses, d)}
                    = {add_other_expense_values(d, Get(lastOk.other[d]))}

\* C1 witness: a date was written twice with different values, the second time by
\* a successful add_record.
C1_Witness ==
    \E d \in Dates :
        /\ lastOk.daily[d] # None
        /\ \E v \in written.daily :
              v.date = d /\ v # add_record_values(d, Get(lastOk.daily[d]))

\* C2: every row of daily_records has
\* daily_net = earnings - cng_expenses - driver_pass_subscription - indrive_topup.
C2_DailyNetInvariant ==
    \A r \in daily_records :
        r.daily_net = r.earnings - r.cng_expenses - r.driver_pass_subscription
                      - r.indrive_topup

\* C3: when import_daily_records or import_other_expenses raises, at whatever row,
\* it returns no counts and both tables are as they were when it was called.
C3_ImportFunctionAtomic ==
    imp.pc = "raised" =>
        /\ Store = imp.before
        /\ imp.e_counts = None
        /\ imp.phase = "daily" => imp.d_counts = None

\* C3 witness: an import function raised after it had updated an existing row in
\* its session.
C3_Witness == imp.pc = "raised" /\ imp.work.updated >= 1

\* C4: an upsert that fails, at the query or at commit, returns False and leaves
\* both tables as they were before the call.
C4_FailedUpsertLeavesStore ==
    \A s \in Sessions : sess[s].pc = "failed" => Store = sess[s].pre

\* C4 witness: an upsert failed at commit after it had found the row of its date
\* and assigned other values to it.
C4_Witness ==
    \E s \in Sessions :
        /\ sess[s].pc = "failed"
        /\ sess[s].existing # None
        /\ WithoutId(Get(sess[s].existing)) # sess[s].vals

\* C5: with every call running to completion before the next begins, a load
\* returns the current rows of its table, whatever was memoized before the last
\* successful write (form upsert or committed import).
C5_LoadAfterWriteIsFresh ==
    Quiet =>
        /\ load_data = DailyFrame(daily_records)
        /\ load_other_expenses = OtherFrame(other_expenses)

\* C6: two upsert calls for the same date that have both returned, neither hit by
\* a connection failure, have both succeeded, and the table holds exactly one row
\* for the date, with the values of the call that committed last.
C6_InterleavedUpsertsSerialise ==
    \A s, t \in Sessions :
        ( /\ s # t
          /\ sess[s].pc \in {"saved", "failed"}
          /\ sess[t].pc \in {"saved", "failed"}
          /\ sess[s].fn = sess[t].fn
          /\ sess[s].date = sess[t].date
          /\ sess[s].error # Some("OperationalError")
          /\ sess[t].error # Some("OperationalError") )
        => /\ sess[s].pc = "saved"
           /\ sess[t].pc = "saved"
           /\ LET table == IF sess[s].fn = "add_record" THEN daily_records
                           ELSE other_expenses
                   last == IF sess[s].fn = "add_record" THEN lastOk.daily[sess[s].date]
                           ELSE lastOk.other[sess[s].date]
                   vals == IF sess[s].fn = "add_record"
                           THEN add_record_values(sess[s].date, Get(last))
                           ELSE add_other_expense_values(sess[s].date, Get(last))
               IN  {WithoutId(r) : r \in RowsFor(table, sess[s].date)} = {vals}

\* The record load_data returns for a row holding the values v.
DailyRecordOf(v) ==
    DailyFrame({[f \in DOMAIN v \cup {"id"} |-> IF f = "id" THEN 1 ELSE v[f]]})[1]

\* The record load_other_expenses returns for a row holding the values v.
OtherRecordOf(v) ==
    OtherFrame({[f \in DOMAIN v \cup {"id"} |-> IF f = "id" THEN 1 ELSE v[f]]})[1]

\* C7: every frame a load has returned, also one read while an upsert or an
\* import was at work, holds in each record, in all fields together, the values
\* of one committed write, and at most one record per date.
C7_LoadSeesWholeRecords ==
    /\ cache.daily # None =>
          LET df == Get(cache.daily)
          IN  \A i \in DOMAIN df :
                /\ \E v \in written.daily : df[i] = DailyRecordOf(v)
                /\ \A j \in DOMAIN df : df[j].date = df[i].date => j = i
    /\ cache.other # None =>
          LET df == Get(cache.other)
          IN  \A i \in DOMAIN df :
                /\ \E v \in written.other : df[i] = OtherRecordOf(v)
                /\ \A j \in DOMAIN df : df[j].date = df[i].date => j = i

\* C7 witness: load_data ran while import_daily_records had assigned new values to
\* an existing row and not yet committed, and returned the row as it was before.
C7_Witness ==
    /\ imp.pc = "daily"
    /\ cache.during
    /\ cache.daily # None
    /\ \E x \in imp.work.dirty : \E i \in DOMAIN Get(cache.daily) :
          /\ Get(cache.daily)[i] = DailyRecordOf(WithoutId(x.loaded))
          /\ Get(cache.daily)[i] # DailyRecordOf(x.vals)

\* C8: when an invocation of import_excel_to_db raises, in either phase, both
\* tables are as they were when the invocation began.
C8_ImportAllOrNothing == imp.pc = "raised" => Store = imp.pre

\* C9: within one batch no date is staged for INSERT twice: a row whose date was
\* written by an earlier row of the batch updates that record, and the rows
\* processed are counted once each as added or updated.
C9_BatchRowsUpsert ==
    imp.pc \in {"daily", "other"} =>
        /\ \A i, j \in DOMAIN imp.work.new :
              imp.work.new[i].date = imp.work.new[j].date => i = j
        /\ imp.work.added + imp.work.updated <= imp.n

\* C10: in every rendering avg_per_ride is 0 when the selection has no rides,
\* profit_margin is 0 for every record without earnings, and the mean of
\* profit_margin is finite.
C10_ZeroDenominator ==
    report # None =>
        LET r == Get(report)
        IN  /\ r.total_rides = 0 => IsZero(r.avg_per_ride)
            /\ \A i \in DOMAIN r.filtered_df :
                  r.filtered_df[i].earnings = 0 => IsZero(r.profit_margin[i])
            /\ r.mean_is_finite

\* The sum of a column over the records of a frame that satisfy a predicate on
\* the date.
SumWhere(frame, column, Pred(_)) ==
    SumColumn(SelectSeq(frame, LAMBDA r : Pred(r.date)), column)

\* C11: in every rendering, the net profit of a month of the selection with
\* OtherExpense rows is its earnings less all its expenses (cng, driver pass,
\* indrive, car_emi, pg_rent, misc), and that of a month without OtherExpense
\* rows is the sum of daily_net over the month's selected records.
C11_MonthlyNetProfit ==
    report # None =>
        LET r == Get(report)
        IN  \A row \in r.monthly_summary :
              LET InMonth(date) == Period(date) = row.month
                  Daily(column) == SumWhere(r.filtered_df, column, InMonth)
                  Other(column) == SumWhere(r.other_expenses_df, column, InMonth)
              IN  IF \E i \in DOMAIN r.other_expenses_df :
                        InMonth(r.other_expenses_df[i].date)
                  THEN row.net_profit =
                         Daily("earnings")
                         - ( Daily("cng_expenses") + Daily("driver_pass_subscription")
                             + Daily("indrive_topup") + Other("car_emi")
                             + Other("pg_rent") + Other("expenses") )
                  ELSE row.net_profit = Daily("daily_net")

\* C12: in every rendering the weekly buckets are the ISO weeks of the selected
\* records: one bucket for each (ISO year, ISO week) that occurs, holding the sums
\* of earnings, daily_net and ride_count over the records of that ISO week.
C12_WeeklyIsoBuckets ==
    report # None =>
        LET r == Get(report)
            keys == {IsoCalendar(r.filtered_df[i].date) : i \in DOMAIN r.filtered_df}
        IN  /\ Cardinality(r.weekly_agg) = Cardinality(keys)
            /\ \A k \in keys :
                  LET InWeek(date) == IsoCalendar(date) = k
                  IN  \E b \in r.weekly_agg :
                        /\ b.earnings = SumWhere(r.filtered_df, "earnings", InWeek)
                        /\ b.daily_net = SumWhere(r.filtered_df, "daily_net", InWeek)
                        /\ b.ride_count = SumWhere(r.filtered_df, "ride_count", InWeek)

\* Whether a date satisfies the selection of a rendering: within the range, both
\* ends included (every date when the date input holds one date), or in the month.
InSelection(r, date) ==
    IF r.filter_type = "Monthly" THEN Period(date) = Get(r.selected_month)
    ELSE Len(r.date_range) = 2 => r.date_range[1] <= date /\ date <= r.date_range[2]

\* The summary totals of a rendering are the sums over the records of a table
\* that satisfy its selection.
TotalsAreSums(r, table) ==
    LET Sel(date) == InSelection(r, date)
        df == DailyFrame(table)
    IN  /\ r.total_earnings = SumWhere(df, "earnings", Sel)
        /\ r.total_expenses = SumWhere(df, "cng_expenses", Sel)
                               + SumWhere(df, "driver_pass_subscription", Sel)
                               + SumWhere(df, "indrive_topup", Sel)
        /\ r.total_profit = SumWhere(df, "daily_net", Sel)
        /\ r.total_rides = SumWhere(df, "ride_count", Sel)

\* C13: every rendering of the dashboard shows, for its date range or month, the
\* totals of earnings, expenses, daily_net and ride_count summed over exactly the
\* rows of daily_records whose date is in the selection, range ends included.
C13_TotalsAreSums ==
    [][report' # report /\ report' # None => TotalsAreSums(Get(report'), daily_records)]_vars

\* C13 witness: a rendering for a date range that keeps a record dated at the end
\* of the range and leaves out another record of the frame it loaded.
C13_Witness ==
    /\ report # None
    /\ cache.daily # None
    /\ LET r == Get(report)
       IN  /\ r.filter_type = "Date Range"
           /\ Len(r.date_range) = 2
           /\ Len(r.filtered_df) < Len(Get(cache.daily))
           /\ \E i \in DOMAIN r.filtered_df : r.filtered_df[i].date = r.date_range[2]
           /\ TotalsAreSums(r, daily_records)

\* A supplied odometer value and what is stored for it: unset for zero (and for an
\* empty cell), the value itself when positive.
OdoStored(supplied, stored) ==
    LET x == IF supplied = None THEN 0 ELSE Get(supplied)
    IN  IF x = 0 THEN stored = None ELSE x > 0 /\ stored = Some(x)

\* C14: no row of daily_records holds an odometer reading of 0; after add_record
\* commits (insert or update), the row of its date holds each supplied odometer
\* value when positive and no reading when it was zero; after import_daily_records
\* commits, the same holds for the row of every sheet row of the batch.
C14_ZeroOdometerIsUnset ==
    /\ [](\A r \in daily_records : r.odometer_start # Some(0) /\ r.odometer_end # Some(0))
    /\ [][\A s \in Sessions :
            ( /\ sess[s].pc = "queried"
              /\ sess[s].fn = "add_record"
              /\ sess'[s].pc = "saved" )
            => \E r \in RowsFor(daily_records', sess[s].date) :
                  /\ OdoStored(Some(sess[s].args.odo_start), r.odometer_start)
                  /\ OdoStored(Some(sess[s].args.odo_end), r.odometer_end)]_vars
    /\ [][(imp.pc = "daily" /\ imp'.pc = "other")
            => \A v \in StagedValues(imp.work) :
                  \E cells \in DailySheetRows, r \in RowsFor(daily_records', v.date) :
                     /\ v = import_daily_values(v.date, cells)
                     /\ OdoStored(cells.odometer_start, r.odometer_start)
                     /\ OdoStored(cells.odometer_end, r.odometer_end)]_vars

\* C14 witness: add_record updated a row that held an end reading, with a zero end
\* reading, and the row now holds none.
C14_Witness ==
    \E s \in Sessions :
        /\ sess[s].pc = "saved"
        /\ sess[s].fn = "add_record"
        /\ sess[s].existing # None
        /\ Get(sess[s].existing).odometer_end # None
        /\ sess[s].args.odo_end = 0
        /\ \A r \in RowsFor(daily_records, sess[s].date) : r.odometer_end = None

\* The dates a step may write in a table: the date of the upsert that commits in
\* the step, the dates of the sheet rows of the import function that commits.
MayWrite(t) ==
    {sess[s].date : s \in {x \in Sessions :
                              /\ sess[x].pc = "queried"
                              /\ sess'[x].pc = "saved"
                              /\ sess[x].fn = (IF t = "daily" THEN "add_record"
                                               ELSE "add_other_expense")}}
    \cup (IF imp.pc = t /\ imp'.pc \in {"other", "complete"}
          THEN TouchedDates(imp.work) ELSE {})

\* C15: a step changes, in either table, only rows of a date that an upsert or an
\* import function of that table commits in the step; rows of other dates and the
\* other table stay as they are, and a call that fails changes no row at all.
C15_FrameEffect ==
    [][ /\ \A d \in Dates :
              /\ d \notin MayWrite("daily") =>
                    RowsFor(daily_records', d) = RowsFor(daily_records, d)
              /\ d \notin MayWrite("other") =>
                    RowsFor(other_expenses', d) = RowsFor(other_expenses, d)
        /\ (\E s \in Sessions : sess[s].pc = "queried" /\ sess'[s].pc = "failed")
              => Store' = Store
        /\ (imp.pc \in {"daily", "other"} /\ imp'.pc = "raised") => Store' = Store ]_vars

\* C15 witness: add_record changed the row of its date while the table held a row
\* for another date and other_expenses held rows, all of them as before the call.
C15_Witness ==
    \E s \in Sessions :
        /\ sess[s].pc = "saved"
        /\ sess[s].fn = "add_record"
        /\ sess[s].existing # None
        /\ WithoutId(Get(sess[s].existing)) # sess[s].vals
        /\ \E r \in daily_records : r.date # sess[s].date /\ r \in sess[s].pre.daily
        /\ other_expenses # {}
        /\ other_expenses = sess[s].pre.other

\* The rows of the batch the loop of the import function processes.
RowsProcessed ==
    Cardinality({i \in DOMAIN imp.batch :
                    imp.fn = "import_other_expenses" => KeptOther(imp.batch[i].cells)})

\* C16: when import_daily_records or import_other_expenses has gone through and is
\* called again on the same sheets with no write in between, both tables are as
\* the first call left them, and the second call (unless its commit is hit by a
\* connection failure) returns added = 0 and updated = the rows it processed.
C16_ImportIdempotent ==
    (imp.pc = "ran" /\ ~imp.first.raised /\ imp.second # None) =>
        LET second == Get(imp.second)
        IN  /\ Store = imp.first.store
            /\ ~second.fault =>
                  /\ ~second.raised
                  /\ second.counts = Some(<<0, RowsProcessed>>)

\* C16 witness: the first call added rows, the second call went through.
C16_Witness ==
    /\ imp.pc = "ran"
    /\ ~imp.first.raised
    /\ Get(imp.first.counts)[1] >= 1
    /\ imp.second # None
    /\ ~Get(imp.second).raised
    /\ Get(imp.second).counts = Some(<<0, RowsProcessed>>)
    /\ RowsProcessed >= 1

=============================================================================
